---- MODULE Spec2Model ----
(***************************************************************************)
(* EventQueue (src/src/manager/tabScheduler/eventQueue.ts): a bounded-     *)
(* concurrency admission queue.  enqueue() appends to the pending list     *)
(* (eventQueue) and may defer a queueLoop() through setTimeout; queueLoop  *)
(* moves pending tasks into activeTasks while fewer than MAX_CONCURRENCY   *)
(* are active and then fires the activation event; completeTask() removes  *)
(* the first active task matched by the caller's filter.                   *)
(*                                                                         *)
(* JavaScript runs each public method and each timer callback to           *)
(* completion, so every method and every callback is one atomic action.    *)
(* Listeners of the activation event are outside the class and are not     *)
(* modelled as calling back into the queue while an event is being fired.  *)
(***************************************************************************)
EXTENDS Integers, Sequences, FiniteSets, TLC

\* ---- bounds of the model ----
MaxTasks == 3          \* number of enqueue calls in one run
MaxConcurrency == 2    \* largest value MAX_CONCURRENCY is set to by a caller
MaxTimers == 2         \* setTimeout callbacks outstanding at once
MaxListeners == 1      \* listeners attached to onTaskActivation at once
MaxWrap == 1           \* optional() calls in one column declaration

\* static MAX_CONCURRENCY = 5
DefaultConcurrency == 5

Kinds == {"exec", "query"}

\* T: the task payload; the id tells the enqueue calls apart
Tasks == [id : 1..MaxTasks, kind : Kinds]

\* Partial<T>: a descriptor naming some of the fields of a task
Descriptors == [id : 1..MaxTasks] \cup [kind : Kinds]

VARIABLES
  eventQueue,        \* private eventQueue: T[]      (the pending list)
  activeTasks,       \* private activeTasks: T[]
  isDispatching,     \* private isDispatching
  isLoopScheduled,   \* private isLoopScheduled
  MAX_CONCURRENCY,   \* static MAX_CONCURRENCY
  timers,            \* number of setTimeout(() => this.queueLoop()) not yet run
  listeners,         \* number of listeners attached to _onTaskActivation
  disposed,          \* _onTaskActivation.dispose() has been called (destroy)
  nextId,            \* id of the next task handed to enqueue
  lastOp,            \* the call or callback that made the last step
  emitted,           \* activation events fired by the last step
  logged,            \* log entries written by the last step
  alive,             \* tasks enqueued and not removed by completeTask/destroy
  burst,             \* enqueue calls in a row since the queue was idle
  chain,             \* a column declaration: the ColumnType objects built by
                     \* the fluent calls, each wrapping the one before it;
                     \* the last one is the object the calls now return
  declared,          \* the flag methods called while building the column
  colOp,             \* the column method called last
  sql,               \* what the last genCreateSql() returned
  threw              \* the last genCreateSql() threw

queueVars == <<eventQueue, activeTasks, isDispatching, isLoopScheduled,
               MAX_CONCURRENCY, timers, listeners, disposed, nextId, lastOp,
               emitted, logged, alive, burst>>

colVars == <<chain, declared, colOp, sql, threw>>

vars == <<queueVars, colVars>>

\* ---- pure helpers ----

\* options.filter(item, task): the caller's predicate; a descriptor matches
\* the tasks that agree with it on every field it names
Filter(item, task) == \A f \in DOMAIN item : item[f] = task[f]

\* Array.prototype.findIndex: 0-based index of the first match, -1 if none
FindLastIndex(item, tasks) ==
  IF \E i \in 1..Len(tasks) : Filter(item, tasks[i])
  THEN (CHOOSE i \in 1..Len(tasks) :
          /\ Filter(item, tasks[i])
          /\ \A j \in 1..Len(tasks) : Filter(item, tasks[j]) => j <= i) - 1
  ELSE -1

FindIndex(item, tasks) ==
  IF \E i \in 1..Len(tasks) : Filter(item, tasks[i])
  THEN (CHOOSE i \in 1..Len(tasks) :
          /\ Filter(item, tasks[i])
          /\ \A j \in 1..Len(tasks) : Filter(item, tasks[j]) => i <= j) - 1
  ELSE -1

\* Array.prototype.splice(idx, 1): a negative idx counts from the end
Splice(tasks, idx) ==
  LET len   == Len(tasks)
      start == IF idx < 0
               THEN (IF len + idx < 0 THEN 0 ELSE len + idx)
               ELSE (IF idx > len THEN len ELSE idx)
  IN  IF start < len
      THEN SubSeq(tasks, 1, start) \o SubSeq(tasks, start + 2, len)
      ELSE tasks

\* completeTask: if (idx > -1)
FoundAlways(idx) == TRUE

Found(idx) == idx > -1

\* completeTask: activeTasks.length === 0 and eventQueue.length > 0, the
\* condition under which a completion defers a queueLoop
CompleteSchedulesNever(active, pending) == FALSE

CompleteSchedules(active, pending) == Len(active) = 0 /\ Len(pending) > 0

\* enqueue: if (this.isDispatching === false)
EnqueueSchedulesAlways(dispatching) == TRUE

EnqueueSchedules(dispatching) == dispatching = FALSE

\* queueLoop: the while condition
LoopAdmitsOneMore(active, pending, max) ==
  Len(active) <= max /\ Len(pending) > 0

LoopAdmits(active, pending, max) ==
  Len(active) < max /\ Len(pending) > 0

\* queueLoop: this.eventQueue.shift() leaves the rest of the pending list
ShiftKeeps(pending) == pending

Shift(pending) == Tail(pending)

\* queueLoop: the while loop, from <<pending, active>> to <<pending, active>>
RECURSIVE QueueLoopWhileNewestFirst(_, _, _)
QueueLoopWhileNewestFirst(pending, active, max) ==
  IF LoopAdmits(active, pending, max)
  THEN QueueLoopWhileNewestFirst(SubSeq(pending, 1, Len(pending) - 1),
                                 Append(active, pending[Len(pending)]), max)
  ELSE <<pending, active>>

RECURSIVE QueueLoopWhile(_, _, _)
QueueLoopWhile(pending, active, max) ==
  IF LoopAdmits(active, pending, max)
  THEN QueueLoopWhile(Shift(pending), Append(active, Head(pending)), max)
  ELSE <<pending, active>>

\* fireActiveTask: the event payload { tasks: this.activeTasks }
ActivationPayloadNewest(active) ==
  [tasks |-> IF active = <<>> THEN <<>> ELSE <<active[Len(active)]>>]

ActivationPayload(active) == [tasks |-> active]

\* Emitter.hasListeners()
HasListeners(n) == n > 0

\* fireActiveTask: the events fired and the log written for an active set
FireEmitted(active, n) ==
  IF HasListeners(n) THEN <<ActivationPayload(active)>> ELSE <<>>

FireLogged(active, n) ==
  IF HasListeners(n) THEN <<>> ELSE <<"error: no listener for active task">>

Op(name, arg) == [name |-> name, arg |-> arg]

\* ---- initial states ----

InitQueue ==
  /\ eventQueue = <<>>
  /\ activeTasks = <<>>
  /\ isDispatching = FALSE
  /\ isLoopScheduled = FALSE
  /\ timers = 0
  /\ listeners = 0
  /\ disposed = FALSE
  /\ nextId = 1
  /\ lastOp = Op("constructor", 0)
  /\ emitted = <<>>
  /\ logged = <<"info: EventQueue created">>
  /\ alive = {}
  /\ burst = 0

\* ---- column declarations (ColumnType, ColumnOptional) ----

\* the flags of a ColumnType as its field initialisers leave them
NewColumn ==
  [required |-> TRUE, unique |-> FALSE, primary |-> FALSE,
   autoIncrement |-> FALSE]

\* ColumnType.genCreateSql() on the object col: what it returns, or that
\* it throws
GenCreateSql(col) ==
  IF col.autoIncrement /\ ~col.primary
  THEN [threw |-> TRUE, sql |-> <<>>]
  ELSE [threw |-> FALSE,
        sql |-> (IF col.primary THEN <<"PRIMARY KEY">> ELSE <<>>)
                \o (IF col.required THEN <<"NOT NULL">> ELSE <<>>)
                \o (IF col.unique THEN <<"UNIQUE">> ELSE <<>>)
                \o (IF col.autoIncrement THEN <<"AUTOINCREMENT">> ELSE <<>>)]

\* text(), integer(), boolean(), date(): a fresh column
InitColumn ==
  /\ chain = <<NewColumn>>
  /\ declared = {}
  /\ colOp = "new"
  /\ sql = <<>>
  /\ threw = FALSE

\* autoIncrement(), primary(), unique() on the object the chain has reached
SetFlag(flag) ==
  /\ chain' = [chain EXCEPT ![Len(chain)][flag] = TRUE]
  /\ declared' = declared \cup {flag}
  /\ colOp' = flag
  /\ sql' = <<>>
  /\ threw' = FALSE
  /\ UNCHANGED queueVars

ColAutoIncrement == SetFlag("autoIncrement")

ColPrimary == SetFlag("primary")

ColUnique == SetFlag("unique")

\* optional(): new ColumnOptional(this); the constructor clears _required of
\* the wrapped column, the wrapper keeps the flags of a fresh ColumnType
ColOptional ==
  /\ Len(chain) <= MaxWrap
  /\ chain' = Append([chain EXCEPT ![Len(chain)].required = FALSE], NewColumn)
  /\ colOp' = "optional"
  /\ sql' = <<>>
  /\ threw' = FALSE
  /\ UNCHANGED <<declared, queueVars>>

\* genCreateSql() on the object the chain has reached
ColGenCreateSql ==
  LET r == GenCreateSql(chain[Len(chain)])
  IN  /\ sql' = r.sql
      /\ threw' = r.threw
      /\ colOp' = "genCreateSql"
      /\ UNCHANGED <<chain, declared, queueVars>>

NextColumn ==
  \/ ColAutoIncrement
  \/ ColPrimary
  \/ ColUnique
  \/ ColOptional
  \/ ColGenCreateSql

Init == InitQueue /\ InitColumn /\ MAX_CONCURRENCY = DefaultConcurrency

\* the limit was set by changeConcurrency before the queue was constructed
InitFixed ==
  InitQueue /\ InitColumn /\ MAX_CONCURRENCY \in 1..MaxConcurrency

\* ---- operations ----

\* onTaskActivation(listener)
Subscribe ==
  /\ ~disposed
  /\ listeners < MaxListeners
  /\ listeners' = listeners + 1
  /\ lastOp' = Op("subscribe", 0)
  /\ emitted' = <<>>
  /\ logged' = <<>>
  /\ burst' = 0
  /\ UNCHANGED <<eventQueue, activeTasks, isDispatching, isLoopScheduled,
                 MAX_CONCURRENCY, timers, disposed, nextId, alive>>
  /\ UNCHANGED colVars

\* the IDisposable returned by onTaskActivation(listener)
Unsubscribe ==
  /\ listeners > 0
  /\ listeners' = listeners - 1
  /\ lastOp' = Op("unsubscribe", 0)
  /\ emitted' = <<>>
  /\ logged' = <<>>
  /\ burst' = 0
  /\ UNCHANGED <<eventQueue, activeTasks, isDispatching, isLoopScheduled,
                 MAX_CONCURRENCY, timers, disposed, nextId, alive>>
  /\ UNCHANGED colVars

\* static changeConcurrency(value)
ChangeConcurrencyEvicts(value) ==
  /\ MAX_CONCURRENCY' = value
  /\ activeTasks' = SubSeq(activeTasks, 1,
                           IF Len(activeTasks) < value THEN Len(activeTasks)
                                                       ELSE value)
  /\ lastOp' = Op("changeConcurrency", value)
  /\ emitted' = <<>>
  /\ logged' = <<>>
  /\ burst' = 0
  /\ UNCHANGED <<eventQueue, isDispatching, isLoopScheduled,
                 timers, listeners, disposed, nextId, alive>>
  /\ UNCHANGED colVars

ChangeConcurrency(value) ==
  /\ MAX_CONCURRENCY' = value
  /\ lastOp' = Op("changeConcurrency", value)
  /\ emitted' = <<>>
  /\ logged' = <<>>
  /\ burst' = 0
  /\ UNCHANGED <<eventQueue, activeTasks, isDispatching, isLoopScheduled,
                 timers, listeners, disposed, nextId, alive>>
  /\ UNCHANGED colVars

\* enqueue(task)
Enqueue(kind) ==
  LET task == [id |-> nextId, kind |-> kind]
      idle == isDispatching = FALSE /\ timers = 0
  IN  /\ nextId <= MaxTasks
      /\ EnqueueSchedules(isDispatching) => timers < MaxTimers
      /\ eventQueue' = Append(eventQueue, task)
      /\ IF EnqueueSchedules(isDispatching)
         THEN isDispatching' = TRUE /\ timers' = timers + 1
         ELSE UNCHANGED <<isDispatching, timers>>
      /\ nextId' = nextId + 1
      /\ alive' = alive \cup {task}
      /\ burst' = IF burst > 0 \/ idle THEN burst + 1 ELSE 0
      /\ lastOp' = Op("enqueue", task)
      /\ emitted' = <<>>
      /\ logged' = <<"info: enqueue">>
      /\ UNCHANGED <<activeTasks, isLoopScheduled, MAX_CONCURRENCY,
                     listeners, disposed>>
      /\ UNCHANGED colVars

\* the setTimeout callback: queueLoop()
QueueLoopNeedsListener ==
  /\ timers > 0
  /\ timers' = timers - 1
  /\ lastOp' = Op("queueLoop", 0)
  /\ burst' = 0
  /\ IF isLoopScheduled \/ ~HasListeners(listeners)
     THEN /\ emitted' = <<>>
          /\ logged' = FireLogged(activeTasks, listeners)
          /\ UNCHANGED <<eventQueue, activeTasks, isLoopScheduled>>
     ELSE LET r == QueueLoopWhile(eventQueue, activeTasks, MAX_CONCURRENCY)
          IN  /\ eventQueue' = r[1]
              /\ activeTasks' = r[2]
              /\ emitted' = FireEmitted(r[2], listeners)
              /\ logged' = FireLogged(r[2], listeners)
              /\ isLoopScheduled' = FALSE
  /\ UNCHANGED <<isDispatching, MAX_CONCURRENCY, listeners, disposed,
                 nextId, alive>>
  /\ UNCHANGED colVars

QueueLoop ==
  /\ timers > 0
  /\ timers' = timers - 1
  /\ lastOp' = Op("queueLoop", 0)
  /\ burst' = 0
  /\ IF isLoopScheduled
     THEN /\ emitted' = <<>>
          /\ logged' = <<>>
          /\ UNCHANGED <<eventQueue, activeTasks, isLoopScheduled>>
     ELSE LET r == QueueLoopWhile(eventQueue, activeTasks, MAX_CONCURRENCY)
          IN  /\ eventQueue' = r[1]
              /\ activeTasks' = r[2]
              /\ emitted' = FireEmitted(r[2], listeners)
              /\ logged' = FireLogged(r[2], listeners)
              /\ isLoopScheduled' = FALSE
  /\ UNCHANGED <<isDispatching, MAX_CONCURRENCY, listeners, disposed,
                 nextId, alive>>
  /\ UNCHANGED colVars

\* completeTask(item)
CompleteTask(item) ==
  LET idx    == FindIndex(item, activeTasks)
      active == IF Found(idx) THEN Splice(activeTasks, idx) ELSE activeTasks
      sched  == CompleteSchedules(active, eventQueue)
  IN  /\ sched => timers < MaxTimers
      /\ activeTasks' = active
      /\ logged' = IF Found(idx) THEN <<"info: task completed">>
                                 ELSE <<"error: task not found">>
      /\ isDispatching' = IF Len(active) = 0 THEN FALSE ELSE isDispatching
      /\ timers' = IF sched THEN timers + 1 ELSE timers
      /\ alive' = IF idx > -1 THEN alive \ {activeTasks[idx + 1]} ELSE alive
      /\ lastOp' = Op("completeTask", item)
      /\ emitted' = <<>>
      /\ burst' = 0
      /\ UNCHANGED <<eventQueue, isLoopScheduled, MAX_CONCURRENCY, listeners,
                     disposed, nextId>>
      /\ UNCHANGED colVars

\* reActivation()
ReActivationRunsLoop ==
  LET r == QueueLoopWhile(eventQueue, activeTasks, MAX_CONCURRENCY)
  IN  /\ eventQueue' = r[1]
      /\ activeTasks' = r[2]
      /\ emitted' = FireEmitted(r[2], listeners)
      /\ logged' = FireLogged(r[2], listeners)
      /\ lastOp' = Op("reActivation", 0)
      /\ burst' = 0
      /\ UNCHANGED <<isDispatching, isLoopScheduled, MAX_CONCURRENCY, timers,
                     listeners, disposed, nextId, alive>>
      /\ UNCHANGED colVars

ReActivation ==
  /\ emitted' = FireEmitted(activeTasks, listeners)
  /\ logged' = FireLogged(activeTasks, listeners)
  /\ lastOp' = Op("reActivation", 0)
  /\ burst' = 0
  /\ UNCHANGED <<eventQueue, activeTasks, isDispatching, isLoopScheduled,
                 MAX_CONCURRENCY, timers, listeners, disposed, nextId, alive>>
  /\ UNCHANGED colVars

\* destroy()
Destroy ==
  /\ eventQueue' = <<>>
  /\ activeTasks' = <<>>
  /\ listeners' = 0
  /\ disposed' = TRUE
  /\ alive' = {}
  /\ lastOp' = Op("destroy", 0)
  /\ emitted' = <<>>
  /\ logged' = <<"info: destroy">>
  /\ burst' = 0
  /\ UNCHANGED <<isDispatching, isLoopScheduled, MAX_CONCURRENCY, timers,
                 nextId>>
  /\ UNCHANGED colVars

NextFixed ==
  \/ Subscribe
  \/ Unsubscribe
  \/ \E kind \in Kinds : Enqueue(kind)
  \/ QueueLoop
  \/ \E item \in Descriptors : CompleteTask(item)
  \/ ReActivation
  \/ Destroy

Next ==
  \/ NextFixed
  \/ \E value \in 1..MaxConcurrency : ChangeConcurrency(value)

Spec == Init /\ [][Next]_vars

SpecFixed == InitFixed /\ [][NextFixed]_vars

SpecColumn == Init /\ [][NextColumn]_vars

TypeOK ==
  /\ isDispatching \in BOOLEAN
  /\ isLoopScheduled = FALSE
  /\ timers \in 0..MaxTimers
  /\ listeners \in 0..MaxListeners
  /\ nextId \in 1..(MaxTasks + 1)
  /\ alive \subseteq Tasks

\* ---- properties ----

LastWas(name) == lastOp.name = name

\* number of positions of a list that hold task t
Count(t, list) == Cardinality({i \in 1..Len(list) : list[i] = t})

NoActiveMatch(item, active) ==
  \A i \in 1..Len(active) : ~Filter(item, active[i])

\* C1: with MAX_CONCURRENCY fixed, the number of active tasks never exceeds
\* it, whatever the interleaving of enqueue, queueLoop and completeTask.
C1_ActiveWithinLimit == Len(activeTasks) <= MAX_CONCURRENCY

C1_Witness ==
  /\ LastWas("queueLoop")
  /\ Len(activeTasks) = MAX_CONCURRENCY
  /\ eventQueue # <<>>

\* C2: an enqueue made on a live queue with a listener attached, while the
\* task still fits under MAX_CONCURRENCY, leaves a dispatch cycle scheduled,
\* so that the activation event carrying the task fires without any
\* completeTask call.
C2_EnqueueBelowLimitIsDispatched ==
  [][(/\ lastOp'.name = "enqueue"
      /\ ~disposed
      /\ listeners > 0
      /\ Len(activeTasks) + Len(eventQueue) < MAX_CONCURRENCY)
     => timers' > 0]_vars

\* C3: a burst of more than MAX_CONCURRENCY enqueues on an idle, empty queue
\* is announced as MAX_CONCURRENCY active tasks with the rest pending; and a
\* matching completeTask on a full active set with work pending schedules a
\* dispatch cycle, so that a further activation event admits a pending task.
C3_CompletionAdmitsNext ==
  [][/\ (/\ lastOp'.name = "queueLoop"
         /\ listeners > 0
         /\ activeTasks = <<>>
         /\ burst = Len(eventQueue)
         /\ burst > MAX_CONCURRENCY)
        => /\ Len(emitted') = 1
           /\ Len(emitted'[1].tasks) = MAX_CONCURRENCY
           /\ Len(eventQueue') = burst - MAX_CONCURRENCY
     /\ (/\ lastOp'.name = "completeTask"
         /\ ~disposed
         /\ listeners > 0
         /\ ~NoActiveMatch(lastOp'.arg, activeTasks)
         /\ Len(activeTasks) = MAX_CONCURRENCY
         /\ eventQueue # <<>>)
        => timers' > 0]_vars

\* C4: once destroy() has been called, enqueue and completeTask are no-ops:
\* both lists stay empty, no dispatch cycle is scheduled, no event is fired.
C4_NoOpAfterDestroy ==
  [][(disposed /\ lastOp'.name \in {"enqueue", "completeTask"})
     => /\ eventQueue' = <<>>
        /\ activeTasks' = <<>>
        /\ timers' = timers
        /\ emitted' = <<>>]_vars

\* C5: completeTask with a descriptor that matches no active task leaves
\* the active list and the pending list exactly as they were.
C5_MissLeavesLists ==
  [][(lastOp'.name = "completeTask" /\ NoActiveMatch(lastOp'.arg, activeTasks))
     => (activeTasks' = activeTasks /\ eventQueue' = eventQueue)]_vars

C5_Witness ==
  /\ LastWas("completeTask")
  /\ logged = <<"error: task not found">>
  /\ activeTasks # <<>>
  /\ eventQueue # <<>>

\* C6: a completion miss changes nothing but the log: the dispatching flag
\* keeps its value and no dispatch cycle is scheduled.
C6_MissLeavesDispatchState ==
  [][(lastOp'.name = "completeTask" /\ NoActiveMatch(lastOp'.arg, activeTasks))
     => (isDispatching' = isDispatching /\ timers' = timers)]_vars

\* C7: every alive task is at exactly one position of pending and active
\* together, and the two lists hold nothing but alive tasks.
C7_AliveInExactlyOneList ==
  /\ \A t \in alive : Count(t, eventQueue) + Count(t, activeTasks) = 1
  /\ \A i \in 1..Len(eventQueue) : eventQueue[i] \in alive
  /\ \A i \in 1..Len(activeTasks) : activeTasks[i] \in alive

C7_Witness ==
  /\ LastWas("queueLoop")
  /\ activeTasks # <<>>
  /\ eventQueue # <<>>
  /\ Cardinality(alive) < nextId - 1
  /\ ~disposed

\* C8: enqueue appends the task to pending, leaves active alone and fires
\* nothing; a burst of enqueues on an idle queue has exactly one dispatch
\* cycle scheduled, and that cycle announces the active set exactly once (to
\* the listeners, or to the error log when there is none).
C8_EnqueueDefersAndCoalesces ==
  [][/\ lastOp'.name = "enqueue"
        => /\ eventQueue' = Append(eventQueue, lastOp'.arg)
           /\ activeTasks' = activeTasks
           /\ emitted' = <<>>
     /\ burst' >= 1 => (timers' = 1 /\ isDispatching')
     /\ (burst >= 1 /\ lastOp'.name = "queueLoop")
        => /\ timers' = 0
           /\ Len(emitted') + Len(logged') = 1
           /\ (listeners > 0 => Len(emitted') = 1)]_vars

C8_Witness ==
  /\ LastWas("enqueue")
  /\ burst >= 2
  /\ timers = 1
  /\ listeners > 0

\* C9: an activation event carries the whole active list as it is when the
\* event fires; when queueLoop fires it, pending is empty or the active list
\* has reached MAX_CONCURRENCY.
C9_EventCarriesActiveSet ==
  emitted # <<>>
  => /\ Len(emitted) = 1
     /\ emitted[1].tasks = activeTasks
     /\ LastWas("queueLoop")
        => (eventQueue = <<>> \/ Len(activeTasks) >= MAX_CONCURRENCY)

C9_Witness ==
  /\ LastWas("queueLoop")
  /\ emitted # <<>>
  /\ Len(activeTasks) >= 2
  /\ eventQueue # <<>>

\* C10: completeTask with a descriptor that matches some active task removes
\* the earliest matching one and nothing else, keeps the order of the rest
\* and leaves pending alone.
C10_RemovesFirstMatch ==
  [][(lastOp'.name = "completeTask" /\ ~NoActiveMatch(lastOp'.arg, activeTasks))
     => LET k == CHOOSE i \in 1..Len(activeTasks) :
                   /\ Filter(lastOp'.arg, activeTasks[i])
                   /\ \A j \in 1..(i - 1) : ~Filter(lastOp'.arg, activeTasks[j])
        IN  /\ activeTasks' = [i \in 1..(Len(activeTasks) - 1) |->
                                 IF i < k THEN activeTasks[i]
                                          ELSE activeTasks[i + 1]]
            /\ eventQueue' = eventQueue]_vars

C10_Witness ==
  /\ LastWas("completeTask")
  /\ logged = <<"info: task completed">>
  /\ ~NoActiveMatch(lastOp.arg, activeTasks)
  /\ eventQueue # <<>>

\* C11: a completeTask call that leaves the active list empty marks the
\* queue idle and defers a queueLoop exactly when pending is not empty; an
\* enqueue on a queue marked idle defers one.
C11_IdleAfterLastCompletion ==
  [][/\ (lastOp'.name = "completeTask" /\ activeTasks' = <<>>)
        => /\ isDispatching' = FALSE
           /\ timers' = IF eventQueue # <<>> THEN timers + 1 ELSE timers
     /\ (lastOp'.name = "enqueue" /\ isDispatching = FALSE)
        => (timers' = timers + 1 /\ isDispatching' = TRUE)]_vars

C11_Witness ==
  /\ LastWas("completeTask")
  /\ logged = <<"info: task completed">>
  /\ activeTasks = <<>>
  /\ eventQueue # <<>>
  /\ isDispatching = FALSE
  /\ timers = 1

\* the first n tasks of pending that a dispatch cycle has room for
Room(active, pending, max) ==
  IF max - Len(active) < 0 THEN 0
  ELSE IF max - Len(active) > Len(pending) THEN Len(pending)
  ELSE max - Len(active)

\* C12: changeConcurrency(v) sets the limit to v and leaves pending, active,
\* the dispatching flag and the deferred cycles alone; a dispatch cycle
\* admits pending tasks up to the limit in force when it runs.
C12_ChangeIsNotRetroactive ==
  [][/\ lastOp'.name = "changeConcurrency"
        => /\ MAX_CONCURRENCY' = lastOp'.arg
           /\ UNCHANGED <<eventQueue, activeTasks, isDispatching, timers>>
     /\ lastOp'.name = "queueLoop"
        => LET n == Room(activeTasks, eventQueue, MAX_CONCURRENCY)
           IN  /\ activeTasks' = activeTasks \o SubSeq(eventQueue, 1, n)
               /\ eventQueue' = SubSeq(eventQueue, n + 1, Len(eventQueue))]_vars

C12_Witness ==
  /\ LastWas("changeConcurrency")
  /\ Len(activeTasks) > MAX_CONCURRENCY
  /\ eventQueue # <<>>

\* C13 as stated: the active list is never longer than MAX_CONCURRENCY, also
\* when changeConcurrency is called in between.
C13_ActiveWithinLimitUnderChange == ~(Len(activeTasks) > MAX_CONCURRENCY)

\* C13 amended: every step keeps the active list within MAX_CONCURRENCY,
\* except a changeConcurrency(v) with v below the number of active tasks; and
\* no step makes the active list longer unless the result is within the limit.
C13_OnlyLoweringExceeds ==
  [][/\ (/\ Len(activeTasks) <= MAX_CONCURRENCY
         /\ ~(/\ lastOp'.name = "changeConcurrency"
              /\ lastOp'.arg < Len(activeTasks)))
        => Len(activeTasks') <= MAX_CONCURRENCY'
     /\ Len(activeTasks') > Len(activeTasks)
        => Len(activeTasks') <= MAX_CONCURRENCY']_vars

C13_Witness ==
  /\ LastWas("queueLoop")
  /\ Len(activeTasks) > MAX_CONCURRENCY
  /\ eventQueue # <<>>

\* C14: reActivation() leaves pending, active, the dispatching flag and the
\* deferred cycles as they are; it fires one event carrying the active list,
\* or writes one error entry when no listener is attached.
C14_ReActivationOnlyFires ==
  [][lastOp'.name = "reActivation"
     => /\ UNCHANGED <<eventQueue, activeTasks, isDispatching, isLoopScheduled,
                       timers, MAX_CONCURRENCY, listeners>>
        /\ IF listeners > 0
           THEN emitted' = <<[tasks |-> activeTasks]>> /\ logged' = <<>>
           ELSE emitted' = <<>> /\ Len(logged') = 1]_vars

C14_Witness ==
  /\ LastWas("reActivation")
  /\ emitted # <<>>
  /\ activeTasks # <<>>
  /\ eventQueue # <<>>
  /\ Len(activeTasks) < MAX_CONCURRENCY

InList(t, list) == \E i \in 1..Len(list) : list[i] = t

CompleteMatching ==
  \E item \in Descriptors :
    ~NoActiveMatch(item, activeTasks) /\ CompleteTask(item)

NextLive ==
  \/ Subscribe
  \/ Unsubscribe
  \/ \E kind \in Kinds : Enqueue(kind)
  \/ QueueLoop
  \/ \E item \in Descriptors : CompleteTask(item)
  \/ ReActivation

\* timers that were set do run; active tasks do get completed
SpecLive ==
  /\ InitFixed
  /\ [][NextLive]_vars
  /\ WF_vars(QueueLoop)
  /\ WF_vars(CompleteMatching)

\* C17: with no destroy, no state has work pending, nothing active and no
\* dispatch cycle deferred; and when deferred cycles run and active tasks
\* get completed, every pending task becomes active.
C17_EveryTaskAdmitted ==
  /\ [](~(eventQueue # <<>> /\ activeTasks = <<>> /\ timers = 0))
  /\ \A id \in 1..MaxTasks :
       (\E i \in 1..Len(eventQueue) : eventQueue[i].id = id)
       ~> (\E j \in 1..Len(activeTasks) : activeTasks[j].id = id)

C17_Witness ==
  /\ LastWas("queueLoop")
  /\ Cardinality(alive) < nextId - 1
  /\ \E i \in 1..Len(activeTasks) : activeTasks[i].id = MaxTasks

\* C18: pending holds the tasks not yet admitted in enqueue order, and no
\* active task was enqueued after a task that is still pending.
C18_FifoAdmission ==
  /\ \A i, j \in 1..Len(eventQueue) :
       i < j => eventQueue[i].id < eventQueue[j].id
  /\ \A i \in 1..Len(eventQueue) : \A j \in 1..Len(activeTasks) :
       activeTasks[j].id < eventQueue[i].id

C18_Witness ==
  /\ LastWas("queueLoop")
  /\ activeTasks # <<>>
  /\ Len(eventQueue) >= 2

\* C19: at most one queueLoop is deferred and not yet run at any moment.
C19_AtMostOneCycleScheduled == timers <= 1

\* C16: the fragment genCreateSql() returns for a column holds 'NOT NULL'
\* exactly when the column did not go through optional(), and 'UNIQUE',
\* 'PRIMARY KEY', 'AUTOINCREMENT' exactly when unique(), primary(),
\* autoIncrement() were called in its declaration.
C16_FragmentReflectsFlags ==
  (colOp = "genCreateSql" /\ ~threw)
  => /\ InList("NOT NULL", sql) <=> Len(chain) = 1
     /\ InList("UNIQUE", sql) <=> "unique" \in declared
     /\ InList("PRIMARY KEY", sql) <=> "primary" \in declared
     /\ InList("AUTOINCREMENT", sql) <=> "autoIncrement" \in declared
====
